---- MODULE Spec2Model ----
(***************************************************************************)
(* A model of project.py (class Project): one project's bare repository,   *)
(* its work tree and its configuration, driven by the public operations    *)
(* Sync_NetworkHalf, Sync_LocalHalf, StartBranch and UploadForReview, and   *)
(* by the user working in the work tree.  The upstream server is seen only *)
(* through what a fetch brings.                                            *)
(*                                                                         *)
(* The object store is a sequence of commits; a commit is named by its     *)
(* index.  A ref holds a commit index, 0 when the ref does not exist.      *)
(* Every git command is a primitive with git's documented semantics; a     *)
(* command that can exit non-zero does so by a nondeterministic input.     *)
(***************************************************************************)
EXTENDS Integers, Sequences, FiniteSets, TLC

\* ---------------------------------------------------------------- bounds
\* The object store holds at most MaxCommits commits.
MaxCommits == 4
\* Sync_NetworkHalf is run with at most MaxExtra extra remotes.
MaxExtra == 1

\* ------------------------------------------------------------- constants
HEAD_NAME == "HEAD"
R_HEADS == "refs/heads/"
R_PUB == "refs/published/"
R_M == "refs/remotes/m/"
\* project.py line 572: the null object id, written 0 here.
NullOid == 0
\* Local branch names (short names, without R_HEADS).
Branches == {"topic"}
\* The upstream branch the manifest can name, and its remote-tracking ref.
UpstreamRef == "refs/heads/master"
TrackingRef == "refs/remotes/origin/master"
PrimaryRemote == "origin"
\* The revisions a manifest gives the project: the upstream branch, or the id
\* of the commit it pins the project to.
Revisions == {[kind |-> "ref", name |-> UpstreamRef, id |-> 0],
              [kind |-> "id", name |-> "", id |-> 1]}
\* The manifest's remote binding has a fetch url and a review url.
FetchUrl == TRUE
ReviewUrl == TRUE

VARIABLES
  bhead,      \* HEAD of the bare repository (gitdir/HEAD), as HEAD below
  sched,      \* the halves in progress: this Project's, and a second Project's
  commits,    \* object store: Seq of [parent, merged, patch, author]
  revision,   \* Project.revision, the manifest's revision
  exists,     \* Project.Exists: the bare repository directory exists
  rcfg,       \* persisted remote.origin.* : [url, review]
  tracking,   \* commit of refs/remotes/origin/master, 0 when absent
  reflog,     \* value of refs/remotes/origin/master@{1}, 0 when there is none
  mref,       \* refs/remotes/m/<manifest branch>: [kind, target, commit]
  heads,      \* refs/heads/<b>  : Branches -> commit or 0
  pub,        \* refs/published/<b> : Branches -> commit or 0
  head,       \* work tree HEAD: [kind, branch, commit]
  bcfg,       \* persisted branch.<b>.{remote,merge}: Branches -> [remote, merge]
  last        \* the last operation: which, what it returned, the exit it took

vars == <<bhead, sched, commits, revision, exists, rcfg, tracking, reflog,
          mref, heads, pub, head, bcfg, last>>

\* ------------------------------------------------------------- revisions
\* A revision expression: a ref name or an object id (IsId), or none.
RefRev(n) == [kind |-> "ref", name |-> n, id |-> 0]
IdRev(c) == [kind |-> "id", name |-> "", id |-> c]
NoRev == [kind |-> "none", name |-> "", id |-> 0]

IsId(r) == r.kind = "id"

\* Remote.ToLocal: an id maps to itself, refs/heads/X to refs/remotes/origin/X.
ToLocal(r) ==
  IF IsId(r) THEN r
  ELSE IF r = RefRev(UpstreamRef) THEN RefRev(TrackingRef)
  ELSE NoRev

\* Branch.LocalMerge: remote.ToLocal(merge) when remote and merge are set.
LocalMerge(b) ==
  IF bcfg[b].remote # "" /\ bcfg[b].merge # NoRev
    THEN ToLocal(bcfg[b].merge)
    ELSE NoRev

\* ----------------------------------------------------------- object store
NewCommit(p, pt, a) == [parent |-> p, merged |-> 0, patch |-> pt, author |-> a]

RECURSIVE Anc(_, _)
\* The commits reachable from c in object store cm (c included).
Anc(cm, c) ==
  IF c = 0 THEN {}
  ELSE {c} \cup Anc(cm, cm[c].parent) \cup Anc(cm, cm[c].merged)

\* rev-list ^a b: the commits reachable from b and not from a.
RevListIn(cm, a, b) == Anc(cm, b) \ Anc(cm, a)

\* The commit HEAD h resolves to under heads hs (0: no work tree).
HeadCommitOf(h, hs) ==
  IF h.kind = "branch" THEN hs[h.branch]
  ELSE IF h.kind = "detached" THEN h.commit
  ELSE 0

HeadCommit == HeadCommitOf(head, heads)

\* rev-parse of a revision expression in the current ref store.
Resolve(r) ==
  IF r.kind = "id" THEN r.id
  ELSE IF r = RefRev(TrackingRef) THEN tracking
  ELSE IF r = RefRev(HEAD_NAME) THEN HeadCommit
  ELSE 0

\* rev-list a...b: the commits reachable from exactly one of a and b.
SymRevListIn(cm, a, b) == RevListIn(cm, a, b) \cup RevListIn(cm, b, a)

\* Project._revlist(not_rev(a), b) over revision expressions.
RevList(a, b) == RevListIn(commits, Resolve(a), Resolve(b))

\* Project._allrefs is empty: for-each-ref lists no ref at all.  (The refs of
\* extra remotes are not kept: they exist only once Sync_NetworkHalf has run
\* its fetches, and nothing else reads them.)
AllRefsEmpty ==
  /\ tracking = 0
  /\ mref.kind = "none"
  /\ \A b \in Branches : heads[b] = 0 /\ pub[b] = 0

\* Project.CurrentBranch: the short name of HEAD's branch, "" when detached.
CurrentBranch == IF head.kind = "branch" THEN head.branch ELSE ""

\* The work tree is the user's: what diff-index, diff-files and ls-files find
\* in it when an operation looks is an input of that operation, one of these.
WtStates == {{}, {"staged"}, {"unstaged"}, {"untracked"}}

\* IsDirty without the diff-files test: unstaged changes go unnoticed.
IsDirtyStagedOnly(w, consider_untracked) ==
  \/ "staged" \in w
  \/ (consider_untracked /\ "untracked" \in w)

\* Project.IsDirty on a work tree with the changes w.
IsDirty(w, consider_untracked) ==
  \/ "staged" \in w
  \/ "unstaged" \in w
  \/ (consider_untracked /\ "untracked" \in w)

\* Project.WasPublished: the commit of refs/published/<b>, 0 for None.
WasPublished(b) == pub[b]

\* ------------------------------------------------------------ last record
\* The record of the last operation.  op: the operation ("" after a step of
\* the user or of the manifest); ret: "true", "false", "raise", "none" (returned
\* None) or ""; path: the exit taken; arg: the branch worked on.
Idle == [op |-> "", ret |-> "", path |-> "", arg |-> ""]

Ran(op, ret, path, arg) == [op |-> op, ret |-> ret, path |-> path, arg |-> arg]

\* sched of a Project that is run alone, one operation at a time.
Solo == [phase |-> "solo"]

\* ------------------------------------------------------------------ Init
\* The Project object was just constructed: nothing is on disk yet.  Commit 1
\* is the root commit the server holds on refs/heads/master.
Init ==
  /\ commits = <<NewCommit(0, 1, "upstream")>>
  /\ revision \in Revisions
  /\ exists = FALSE
  /\ rcfg = [url |-> FALSE, review |-> FALSE]
  /\ tracking = 0
  /\ reflog = 0
  /\ mref = [kind |-> "none", target |-> NoRev, commit |-> 0]
  /\ heads = [b \in Branches |-> 0]
  /\ pub = [b \in Branches |-> 0]
  /\ head = [kind |-> "none", branch |-> "", commit |-> 0]
  /\ bcfg = [b \in Branches |-> [remote |-> "", merge |-> NoRev]]
  /\ last = Idle
  /\ sched = Solo
  /\ bhead = [kind |-> "none", branch |-> "", commit |-> 0]

\* ----------------------------------------------------------- environment
\* The user commits on HEAD (git commit): staged changes go into the commit.
UserCommit ==
  /\ head.kind # "none"
  /\ Len(commits) < MaxCommits
  /\ commits' = Append(commits, NewCommit(HeadCommit, Len(commits) + 1, "user"))
  /\ IF head.kind = "branch"
       THEN /\ heads' = [heads EXCEPT ![head.branch] = Len(commits) + 1]
            /\ head' = head
       ELSE /\ head' = [head EXCEPT !.commit = Len(commits) + 1]
            /\ heads' = heads
  /\ last' = Idle
  /\ UNCHANGED <<revision, bhead, sched, exists, rcfg, tracking, reflog, mref,
                 pub, bcfg>>

\* The user creates a branch by hand (git checkout -b <b>): no tracking
\* configuration is written.
UserBranch ==
  /\ head.kind # "none"
  /\ HeadCommit # 0
  /\ \E b \in Branches :
       /\ heads[b] = 0
       /\ heads' = [heads EXCEPT ![b] = HeadCommit]
       /\ head' = [kind |-> "branch", branch |-> b, commit |-> 0]
  /\ last' = Idle
  /\ UNCHANGED <<commits, revision, bhead, sched, exists, rcfg, tracking,
                 reflog, mref, pub, bcfg>>

\* The user switches to an existing branch (git checkout <b>).
UserCheckout ==
  /\ head.kind # "none"
  /\ \E b \in Branches :
       /\ heads[b] # 0
       /\ CurrentBranch # b
       /\ head' = [kind |-> "branch", branch |-> b, commit |-> 0]
  /\ last' = Idle
  /\ UNCHANGED <<commits, revision, bhead, sched, exists, rcfg, tracking,
                 reflog, mref, heads, pub, bcfg>>

\* The user deletes a branch that is not checked out (git branch -D <b>): git
\* removes the ref and the branch's configuration section.
UserDeleteBranch ==
  /\ \E b \in Branches :
       /\ heads[b] # 0
       /\ CurrentBranch # b
       /\ heads' = [heads EXCEPT ![b] = 0]
       /\ bcfg' = [bcfg EXCEPT ![b] = [remote |-> "", merge |-> NoRev]]
  /\ last' = Idle
  /\ UNCHANGED <<commits, revision, bhead, sched, exists, rcfg, tracking,
                 reflog, mref, pub, head>>

\* The reflog of the tracking ref is gone (git reflog expire, git gc).
UserExpireReflog ==
  /\ reflog # 0
  /\ reflog' = 0
  /\ last' = Idle
  /\ UNCHANGED <<commits, revision, bhead, sched, exists, rcfg, tracking, mref, heads,
                 pub, head, bcfg>>

\* ------------------------------------------------------- Sync_NetworkHalf
\* _InitGitDir (lines 771-790) runs git init when the repository directory
\* is not there: git init writes HEAD as the symbolic ref refs/heads/master.
InitGitDir ==
  IF exists THEN bhead ELSE [kind |-> "branch", branch |-> "master", commit |-> 0]

\* _GitGetByExec.UpdateRef hands name and new to git update-ref as argv
\* entries; the command can only be started when every entry is a string.
UpdateRefRuns(new) == ~new.tuple

\* _InitMRef's dst for an object id: `self.revision + '^0',` is a one-element
\* tuple, not the string.
MRefDst(rev) == [tuple |-> TRUE, commit |-> rev.id]

\* _InitMRef, given manifest.branch is set: the new value of the manifest
\* mirror ref, and whether the update raised.
InitMRef(rev) ==
  IF IsId(rev)
    THEN IF UpdateRefRuns(MRefDst(rev))
           THEN [raised |-> FALSE,
                 mref |-> [kind |-> "detached", target |-> NoRev,
                           commit |-> MRefDst(rev).commit]]
           ELSE [raised |-> TRUE, mref |-> mref]
    ELSE [raised |-> FALSE,
          mref |-> [kind |-> "symbolic", target |-> ToLocal(rev), commit |-> 0]]

\* The fetches of a run that goes on to the next remote after a failure.
FetchesAll(nExtra, failAt) ==
  [i \in 1..(nExtra + 1) |-> IF i <= nExtra THEN "fetch extra" ELSE "fetch"]

\* The fetches Sync_NetworkHalf makes, in order, when the one numbered failAt
\* (0: none) exits non-zero: nExtra extra remotes, then the primary remote.
Fetches(nExtra, failAt) ==
  LET all == [i \in 1..(nExtra + 1) |-> IF i <= nExtra THEN "fetch extra" ELSE "fetch"]
  IN  IF failAt = 0 THEN all ELSE SubSeq(all, 1, failAt)

\* What the server's refs/heads/master holds when it is fetched: the commit
\* fetched last time, a new commit on top of it, or a rewritten history: a new
\* commit on an older commit p, or a new root (p = 0).
Upstream ==
  LET cur == IF tracking = 0 THEN 1 ELSE tracking
      new == Len(commits) + 1
  IN  {[tip |-> cur, cm |-> commits]}
      \cup (IF tracking # 0 /\ new <= MaxCommits
              THEN {[tip |-> new,
                     cm |-> Append(commits, NewCommit(p, new, "upstream"))] :
                      p \in Anc(commits, cur) \cup {0}}
              ELSE {})

\* The inputs of one run of Sync_NetworkHalf.  nExtra: the extra remotes;
\* failAt: the fetch that exits non-zero (0: none); hasUrl: the manifest's
\* remote binding has a fetch url; mb: manifest.branch is set; up: what the
\* primary remote serves.
NetInputs ==
  {[nExtra |-> n, failAt |-> f, hasUrl |-> u, mb |-> m, up |-> up] :
     n \in 0..MaxExtra, f \in 0..(MaxExtra + 1), u \in {FetchUrl},
     m \in BOOLEAN, up \in Upstream}

\* Sync_NetworkHalf (lines 457-473) with the inputs in: what it leaves behind
\* and returns.
NetworkHalf(in) ==
  LET rcfg1 == IF in.hasUrl THEN [url |-> TRUE, review |-> ReviewUrl] ELSE rcfg
      failed == in.failAt # 0
      im == InitMRef(revision)
      raised == ~failed /\ in.mb /\ im.raised
      fetched == Fetches(in.nExtra, in.failAt)
  IN  [ret |-> IF failed THEN "false" ELSE IF raised THEN "raise" ELSE "true",
       path |-> IF failed THEN "fetch failed"
                ELSE IF raised THEN "mref raised" ELSE "done",
       did |-> IF failed THEN fetched
               ELSE IF ~in.mb THEN fetched \o <<"repair">>
               ELSE fetched \o <<"repair", "mref">>,
       exists |-> TRUE,
       rcfg |-> rcfg1,
       commits |-> IF failed THEN commits ELSE in.up.cm,
       tracking |-> IF failed THEN tracking ELSE in.up.tip,
       reflog |-> IF ~failed /\ tracking # 0 /\ tracking # in.up.tip
                    THEN tracking ELSE reflog,
       mref |-> IF ~failed /\ in.mb THEN im.mref ELSE mref]

\* The fetches that can happen: failAt names one of the run's fetches, and the
\* primary remote can be fetched only when it has a url.  A run whose fetch
\* fails brings nothing, so what the server holds is left out of its inputs.
NetPossible(in) ==
  /\ in.failAt <= in.nExtra + 1
  /\ (in.failAt = 0 => (in.hasUrl \/ rcfg.url))
  /\ (in.failAt # 0 => in.up.cm = commits)

\* A network half whose fetch runs in the work tree: HEAD follows the fetch.
Sync_NetworkHalfInWorkTree ==
  \E in \in NetInputs :
    LET o == NetworkHalf(in)
    IN  /\ NetPossible(in)
        /\ exists' = o.exists
        /\ rcfg' = o.rcfg
        /\ commits' = o.commits
        /\ tracking' = o.tracking
        /\ reflog' = o.reflog
        /\ mref' = o.mref
        /\ last' = Ran("Sync_NetworkHalf", o.ret, o.path, "")
        /\ head' = IF head.kind = "none" THEN head
                   ELSE [kind |-> "detached", branch |-> "", commit |-> o.tracking]
        /\ bhead' = InitGitDir
        /\ UNCHANGED <<revision, sched, heads, pub, bcfg>>

Sync_NetworkHalf ==
  \E in \in NetInputs :
    LET o == NetworkHalf(in)
    IN  /\ NetPossible(in)
        /\ exists' = o.exists
        /\ rcfg' = o.rcfg
        /\ commits' = o.commits
        /\ tracking' = o.tracking
        /\ reflog' = o.reflog
        /\ mref' = o.mref
        /\ last' = Ran("Sync_NetworkHalf", o.ret, o.path, "")
        /\ bhead' = InitGitDir
        /\ UNCHANGED <<revision, sched, heads, pub, head, bcfg>>

\* --------------------------------------------------------- Sync_LocalHalf
Detached(c) == [kind |-> "detached", branch |-> "", commit |-> c]
OnBranch(b) == [kind |-> "branch", branch |-> b, commit |-> 0]

\* _InitWorkTree: when the work tree has no .git, HEAD is written detached at
\* rev^0 and read-tree fills the work tree (wt_ok: read-tree exits 0).
InitWorkTree(wt_ok) ==
  IF head.kind # "none" THEN [raised |-> FALSE, head |-> head, did |-> <<>>]
  ELSE LET c == Resolve(ToLocal(revision))
       IN  IF c = 0 THEN [raised |-> TRUE, head |-> head, did |-> <<>>]
           ELSE [raised |-> ~wt_ok, head |-> Detached(c), did |-> <<"read-tree">>]

\* A clean-up that drops every published ref.
CleanPublishedCacheAll(hs, pb) == [b \in Branches |-> 0]

\* _GitGetByExec.DeleteRef(name, old) (lines 1004-1007): update-ref -d deletes
\* refs/published/<b> when it still holds old, and otherwise leaves it.
DeleteRef(pb, b, old) == IF pb[b] = old THEN [pb EXCEPT ![b] = 0] ELSE pb

\* The loop of lines 379-382 over the names todo: each ref is deleted against
\* the object id seen[b] read at line 373.
RECURSIVE DeleteRefs(_, _, _)
DeleteRefs(pb, seen, todo) ==
  IF todo = {} THEN pb
  ELSE LET b == CHOOSE x \in todo : TRUE
       IN  DeleteRefs(DeleteRef(pb, b, seen[b]), seen, todo \ {b})

\* CleanPublishedCache: refs/published/X goes when refs/heads/X does not exist.
CleanPublishedCache(hs, pb) ==
  DeleteRefs(pb, pb, {b \in Branches : pb[b] # 0 /\ hs[b] = 0})

\* rev-parse '<merge>@{1}': the reflog's previous value; without one git ends
\* with an error, or (older gits) prints the null id; nolog picks which.
ErrRev == [kind |-> "error", name |-> "", id |-> 0]
EmptyRev == [kind |-> "empty", name |-> "", id |-> 0]
RevParsePrev(merge, nolog) ==
  IF merge = RefRev(TrackingRef) /\ reflog # 0 THEN IdRev(reflog)
  ELSE IF nolog = "null" THEN IdRev(NullOid)
  ELSE IF nolog = "empty" THEN EmptyRev
  ELSE ErrRev

\* old_merge without the test of lines 572-574: a null id or an empty string
\* that rev-parse printed is kept.
OldMergeKeepsNull(merge, rev, nolog) ==
  IF merge = rev
    THEN LET raw == RevParsePrev(merge, nolog)
         IN  IF raw = ErrRev THEN merge ELSE raw
    ELSE merge

\* old_merge (lines 567-582).
OldMerge(merge, rev, nolog) ==
  IF merge = rev
    THEN LET raw == RevParsePrev(merge, nolog)
         IN  IF raw = ErrRev THEN merge
             ELSE IF raw = IdRev(NullOid) \/ raw = EmptyRev THEN merge
             ELSE raw
    ELSE merge

\* upstream_lost (lines 584-587).
UpstreamLost(rev, old_merge) ==
  IF rev = old_merge THEN {} ELSE RevList(rev, old_merge)

\* No published check at all: the call never returns at lines 551-565.
PublishedPuntNever(pb, rev, gain) == FALSE

\* The published check with its test inverted: it returns when every
\* published commit is merged.
PublishedPuntInverted(pb, rev, gain) ==
  /\ pb # 0
  /\ RevListIn(commits, Resolve(rev), pb) = {}

\* The published check (lines 551-565): the call returns here.
PublishedPunt(pb, rev, gain) ==
  /\ pb # 0
  /\ RevListIn(commits, Resolve(rev), pb) # {}

\* Without the test of lines 589-592 the run always goes on to the dirty check.
NothingToDoNever(gain, lost) == FALSE

\* Lines 589-592: trivially no changes caused by the upstream.
NothingToDo(gain, lost) == lost = {} /\ gain = {}

\* The choice with the tests in the other order: upstream_lost first.
DecideLostFirst(my_changes, upstream_lost) ==
  IF upstream_lost # {} THEN "reset"
  ELSE IF my_changes # {} THEN "rebase"
  ELSE "merge"

\* The command chosen at lines 610-625.
Decide(my_changes, upstream_lost) ==
  IF my_changes # {} THEN "rebase"
  ELSE IF upstream_lost # {} THEN "reset"
  ELSE "merge"

RECURSIVE Chain(_, _, _)
\* The first-parent chain that ends in c, oldest first, cut at the commits of stop.
Chain(cm, c, stop) ==
  IF c = 0 \/ c \in stop THEN <<>>
  ELSE Append(Chain(cm, cm[c].parent, stop), c)

\* git rebase's todo list: the commits of upstream..HEAD, oldest first.
RebaseTodo(cm, upstream, h) == Chain(cm, h, Anc(cm, upstream))

\* A pick that fast-forwards or else skips the commit.
PickOrSkip(st, c) ==
  IF st.cm[c].parent = st.cur THEN [cm |-> st.cm, cur |-> c] ELSE st

\* One pick: a commit whose parent is the current tip is fast-forwarded to; a
\* commit whose patch the current tip already contains picks to nothing and is
\* dropped; any other is copied (same patch, same author) onto the current tip.
Pick(st, c) ==
  IF st.cm[c].parent = st.cur
    THEN [cm |-> st.cm, cur |-> c]
  ELSE IF \E a \in Anc(st.cm, st.cur) : st.cm[a].patch = st.cm[c].patch
    THEN st
  ELSE [cm |-> Append(st.cm, NewCommit(st.cur, st.cm[c].patch, st.cm[c].author)),
        cur |-> Len(st.cm) + 1]

RECURSIVE Replay(_, _, _)
\* The first n picks of todo, from st.
Replay(st, todo, n) ==
  IF n = 0 THEN st ELSE Pick(Replay(st, todo, n - 1), todo[n])

\* What one run of Sync_LocalHalf leaves behind and returns.
Out(h, pb) ==
  [ret |-> "true", path |-> "", did |-> <<>>, arg |-> "",
   head |-> h, heads |-> heads, pub |-> pb, commits |-> commits, bcfg |-> bcfg,
   old |-> 0]

\* A checkout that moves the current branch to rev and stays on it.
CheckoutMovesBranch(o, rev, ok, path) ==
  IF ok /\ o.head.kind = "branch"
    THEN [o EXCEPT !.heads[o.head.branch] = Resolve(rev), !.path = path,
                   !.did = o.did \o <<"checkout">>]
    ELSE [o EXCEPT !.ret = IF ok THEN "true" ELSE "false", !.path = path,
                   !.did = o.did \o <<"checkout">>]

\* _Checkout(rev) (lines 740-748) from o: a non-zero exit raises GitError only
\* when the repository has refs; Sync_LocalHalf turns GitError into False.
Checkout(o, rev, ok, path) ==
  IF ok
    THEN [o EXCEPT !.head = Detached(Resolve(rev)), !.path = path,
                   !.did = o.did \o <<"checkout">>]
    ELSE IF AllRefsEmpty
      THEN [o EXCEPT !.path = path, !.did = o.did \o <<"checkout">>]
      ELSE [o EXCEPT !.ret = "false", !.path = path,
                     !.did = o.did \o <<"checkout">>]

\* _Rebase(upstream, onto) (lines 758-764) on branch b: git rebase -i --onto.
\* picks: the picks that applied; fewer than the todo list means a pick
\* stopped (on a conflict), and git leaves HEAD detached on the commits picked
\* so far; started = FALSE: git refused to start and changed nothing.
Rebase(o, b, upstream, onto, started, picks) ==
  LET todo == RebaseTodo(commits, upstream, o.heads[b])
      st == Replay([cm |-> commits, cur |-> onto], todo, picks)
      o1 == [o EXCEPT !.did = o.did \o <<"rebase">>, !.path = "rebase"]
  IN  IF ~started THEN [o1 EXCEPT !.ret = "false"]
      ELSE IF picks = Len(todo)
        THEN [o1 EXCEPT !.commits = st.cm, !.heads[b] = st.cur]
        ELSE [o1 EXCEPT !.ret = "false", !.commits = st.cm,
                        !.head = Detached(st.cur)]

\* _ResetHard(rev) (lines 750-756) on branch b: git reset --hard.
ResetHard(o, b, rev, ok) ==
  LET o1 == [o EXCEPT !.did = o.did \o <<"reset">>, !.path = "reset"]
  IN  IF ok THEN [o1 EXCEPT !.heads[b] = Resolve(rev)]
      ELSE [o1 EXCEPT !.ret = "false"]

\* _FastForward(head) (lines 766-769) on branch b: git merge.  The branch is
\* fast-forwarded when it is behind, left alone when it already contains rev,
\* and gets a merge commit otherwise.
FastForward(o, b, rev, ok) ==
  LET o1 == [o EXCEPT !.did = o.did \o <<"merge">>, !.path = "merge"]
      r == Resolve(rev)
      h == o.heads[b]
  IN  IF ~ok THEN [o1 EXCEPT !.ret = "false"]
      ELSE IF h \in Anc(commits, r) THEN [o1 EXCEPT !.heads[b] = r]
      ELSE IF r \in Anc(commits, h) THEN o1
      ELSE [o1 EXCEPT
              !.commits = Append(commits,
                            [parent |-> h, merged |-> r,
                             patch |-> Len(commits) + 1, author |-> "user"]),
              !.heads[b] = Len(commits) + 1]

\* branch.remote = rem; branch.merge = self.revision; branch.Save() (606-608).
SaveBranch(o, b) ==
  [o EXCEPT !.bcfg[b] = [remote |-> PrimaryRemote, merge |-> revision],
            !.did = o.did \o <<"save">>]

\* Case C of Sync_LocalHalf (lines 550-628): the current branch b tracks merge.
\* in: the inputs of the run (see Sync_LocalHalf).
TrackedCase(o, b, merge, rev, in) ==
  LET h == o.heads[b]
      upstream_gain == RevListIn(commits, h, Resolve(rev))
      pb == WasPublished(b)
      old_merge == OldMerge(merge, rev, in.nolog)
      upstream_lost == UpstreamLost(rev, old_merge)
      my_changes == RevListIn(commits, Resolve(old_merge), h)
      o1 == [o EXCEPT !.arg = b]
      o2 == [o1 EXCEPT !.old = Resolve(old_merge)]
      o3 == SaveBranch(o2, b)
      cmd == Decide(my_changes, upstream_lost)
  IN  IF PublishedPunt(pb, rev, upstream_gain)
        THEN [o1 EXCEPT !.path = "published"]
      ELSE IF NothingToDo(upstream_gain, upstream_lost)
        THEN [o2 EXCEPT !.path = "nothing"]
      ELSE IF IsDirty(in.wt, FALSE)
        THEN [o2 EXCEPT !.ret = "false", !.path = "dirty"]
      ELSE IF cmd = "rebase"
        THEN Rebase(o3, b, Resolve(old_merge), Resolve(rev), in.started, in.picks)
      ELSE IF cmd = "reset"
        THEN ResetHard(o3, b, rev, in.ok)
      ELSE FastForward(o3, b, rev, in.ok)

\* Sync_LocalHalf (lines 503-628) with the inputs in.
LocalHalf(in) ==
  LET iw == InitWorkTree(in.wt_ok)
      o == Out(iw.head, CleanPublishedCache(heads, pub))
      rev == ToLocal(revision)
      branch == IF iw.head.kind = "branch" THEN iw.head.branch ELSE ""
      res == IF iw.raised
               THEN [Out(iw.head, pub) EXCEPT !.ret = "raise", !.path = "init"]
             ELSE IF branch = "" THEN Checkout(o, rev, in.ok, "detached")
             ELSE IF LocalMerge(branch) = NoRev
               THEN Checkout([o EXCEPT !.arg = branch], rev, in.ok, "untracked")
             ELSE TrackedCase(o, branch, LocalMerge(branch), rev, in)
  IN  [res EXCEPT !.did = iw.did \o res.did]

\* The inputs of one run.  wt: the changes in the work tree; wt_ok: read-tree
\* exits 0; ok: the one of checkout, reset and merge that runs exits 0; nolog:
\* how rev-parse answers without a reflog; started, picks: whether git rebase
\* starts and how many picks apply.
LocalInput(wt, wt_ok, ok, nolog, started, picks) ==
  [wt |-> wt, wt_ok |-> wt_ok, ok |-> ok, nolog |-> nolog, started |-> started,
   picks |-> picks]

\* The inputs that make a difference on the path a run takes.
LocalInputs ==
  LET probe == {LocalInput(w, TRUE, TRUE, n, TRUE, 0) :
                  w \in WtStates,
                  n \in IF reflog = 0 THEN {"error", "null", "empty"} ELSE {"error"}}
      more(in) ==
        LET o == LocalHalf(in)
        IN  IF o.path = "rebase"
              THEN {[in EXCEPT !.started = s, !.picks = k] :
                      s \in BOOLEAN,
                      k \in 0..Len(RebaseTodo(commits, o.old, heads[o.arg]))}
            ELSE IF o.path \in {"detached", "untracked", "reset", "merge"}
              THEN {[in EXCEPT !.ok = k] : k \in BOOLEAN}
            ELSE {in}
  IN  UNION {more(in) : in \in probe}
        \cup (IF head.kind = "none"
                THEN {LocalInput({}, FALSE, TRUE, "error", TRUE, 0)} ELSE {})

\* The sync command runs the local half right after the network half, and only
\* when that returned true; the local half may be run again.
LocalHalfInvoked ==
  /\ exists
  /\ \/ last.op = "Sync_NetworkHalf" /\ last.ret = "true"
     \/ last.op = "Sync_LocalHalf"

Sync_LocalHalf ==
  /\ LocalHalfInvoked
  /\ \E in \in LocalInputs :
       LET o == LocalHalf(in)
       IN  /\ Len(o.commits) <= MaxCommits
           /\ commits' = o.commits
           /\ head' = o.head
           /\ heads' = o.heads
           /\ pub' = o.pub
           /\ bcfg' = o.bcfg
           /\ last' = Ran("Sync_LocalHalf", o.ret, o.path, o.arg)
  /\ UNCHANGED <<revision, bhead, sched, exists, rcfg, tracking, reflog, mref>>

\* ---------------------------------------------------------------- _CopyFile
\* What a copy-file destination can be in the work tree when a run finds it:
\* absent, of another content than the source (with or without the os.stat
\* signature of the source, which is what filecmp.cmp looks at first), or of
\* the source's content, writable or not.
DestStates ==
  {"absent", "differs", "differs, same signature", "same, writable",
   "same, read-only"}

\* filecmp.cmp(src, dest) (line 148): true for equal signatures, else by content.
FileCmp(d) == d \in {"differs, same signature", "same, writable", "same, read-only"}

\* _CopyFile._Copy (lines 144-161) on the destination d.  io: remove, copy and
\* chmod raise no IOError; an IOError after the remove is printed and dropped.
Copy(d, io) ==
  IF d = "absent" \/ ~FileCmp(d)
    THEN IF io THEN "same, read-only" ELSE "absent"
    ELSE d

\* _CopyFiles is called at lines 529, 547 and 627, after the checkout of the
\* detached and untracked cases and after rebase, reset or merge; the returns
\* of lines 565 and 592 come before it.
CopyFilesRuns(o) ==
  /\ o.ret = "true"
  /\ o.path \in {"detached", "untracked", "rebase", "reset", "merge"}

\* The destination after the run with inputs in that found it as d.
CopyFilesOut(in, d, io) ==
  IF CopyFilesRuns(LocalHalf(in)) THEN Copy(d, io) ELSE d

\* ------------------------------------------------------------ StartBranch
\* StartBranch(name) (lines 656-668).  ok: git checkout -b exits 0, which it
\* can only do in a work tree, for a new branch name and a start point that
\* resolves.  The tracking configuration is saved only then.
StartBranchRuns(name) ==
  /\ head.kind # "none"
  /\ heads[name] = 0
  /\ Resolve(ToLocal(revision)) # 0

\* StartBranch with branch.Save() before the checkout: the configuration is
\* written whether or not checkout -b exits 0.
StartBranchSavesFirst(name, ok) ==
  [ret |-> IF ok THEN "none" ELSE "raise",
   path |-> IF ok THEN "created" ELSE "GitError",
   heads |-> IF ok THEN [heads EXCEPT ![name] = Resolve(ToLocal(revision))]
             ELSE heads,
   head |-> IF ok THEN OnBranch(name) ELSE head,
   bcfg |-> [bcfg EXCEPT ![name] =
               [remote |-> PrimaryRemote, merge |-> revision]]]

StartBranchOut(name, ok) ==
  IF ok
    THEN [ret |-> "none", path |-> "created",
          heads |-> [heads EXCEPT ![name] = Resolve(ToLocal(revision))],
          head |-> OnBranch(name),
          bcfg |-> [bcfg EXCEPT ![name] =
                      [remote |-> PrimaryRemote, merge |-> revision]]]
    ELSE [ret |-> "raise", path |-> "GitError",
          heads |-> heads, head |-> head, bcfg |-> bcfg]

StartBranch ==
  /\ exists
  /\ \E name \in Branches, ok \in BOOLEAN :
       LET o == StartBranchOut(name, ok)
       IN  /\ ok => StartBranchRuns(name)
           /\ heads' = o.heads
           /\ head' = o.head
           /\ bcfg' = o.bcfg
           /\ last' = Ran("StartBranch", o.ret, o.path, name)
  /\ UNCHANGED <<commits, revision, bhead, sched, exists, rcfg, tracking, reflog, mref, pub>>

\* -------------------------------------------------------- UploadForReview
\* The refs the branch's remote writes to (Remote.WritesTo over _allrefs):
\* the remote-tracking refs.
BaseList == IF tracking = 0 THEN {} ELSE {TrackingRef}

\* The external UploadBundle: it succeeds ("ok"), or raises ClientLoginError
\* ("login") or HTTPError ("http").  It bundles refs/heads/<b>, so it can
\* succeed only when that ref exists.
UploadResults == {"ok", "login", "http"}

\* refs/published/* updated whatever the upload's result.
AfterUploadAlways(b, result) == [pub EXCEPT ![b] = heads[b]]

\* refs/published/* after UploadBundle ended with result (lines 441-452): the
\* ref of b is updated to refs/heads/b after a successful upload only.
AfterUpload(b, result) ==
  IF result = "ok" THEN [pub EXCEPT ![b] = heads[b]] ELSE pub

\* UploadForReview(branch) (lines 409-452); branch = "" stands for None.
UploadOut(branch, result) ==
  LET b == IF branch = "" THEN CurrentBranch ELSE branch
      raise(class, why) ==
        [ret |-> "raise", path |-> class, why |-> why, arg |-> b, pub |-> pub]
  IN  IF b = "" THEN raise("GitError", "not currently on a branch")
      ELSE IF LocalMerge(b) = NoRev
        THEN raise("GitError", "branch does not track a remote")
      ELSE IF ~rcfg.review THEN raise("GitError", "remote has no review url")
      ELSE IF BaseList = {} THEN raise("GitError", "no base refs")
      ELSE IF result = "login"
        THEN [raise("UploadError", "Login failure") EXCEPT
                !.pub = AfterUpload(b, result)]
      ELSE IF result = "http"
        THEN [raise("UploadError", "HTTP error") EXCEPT
                !.pub = AfterUpload(b, result)]
      ELSE [ret |-> "none", path |-> "posted", why |-> "", arg |-> b,
            pub |-> AfterUpload(b, result)]

UploadForReview ==
  /\ exists
  /\ \E branch \in Branches \cup {""}, result \in UploadResults :
       LET o == UploadOut(branch, result)
       IN  /\ (o.path = "posted") => heads[o.arg] # 0
           /\ pub' = o.pub
           /\ last' = Ran("UploadForReview", o.ret, o.path, o.arg)
  /\ UNCHANGED <<commits, revision, bhead, sched, exists, rcfg, tracking, reflog, mref, heads,
                 head, bcfg>>

\* -------------------------------------------------- GetUploadableBranches
\* The heads and pubed dictionaries read from _allrefs (lines 387-394): the
\* branches that have a ref under R_HEADS, under R_PUB.
HeadsDict == {b \in Branches : heads[b] # 0}
PubedDict == {b \in Branches : pub[b] # 0}

\* ReviewableBranch.commits (lines 85-97): rev-list ^base refs/heads/<name>.
RbCommits(base, name) == RevListIn(commits, Resolve(base), heads[name])

\* The list without the test of the published ref.
ReadyIgnoringPublished ==
  {[name |-> b, base |-> LocalMerge(b)] :
     b \in {x \in HeadsDict :
              LocalMerge(x) # NoRev /\ RbCommits(LocalMerge(x), x) # {}}}

\* The list with the published test cut short: a branch that has a published
\* ref is left out whether or not it moved since.
ReadyUnlessPublished ==
  {[name |-> b, base |-> LocalMerge(b)] :
     b \in {x \in HeadsDict :
              /\ x \notin PubedDict
              /\ LocalMerge(x) # NoRev
              /\ RbCommits(LocalMerge(x), x) # {}}}

\* The list ready that GetUploadableBranches returns (lines 396-407): one
\* ReviewableBranch, [name, base], for each branch that passes the tests.
Ready ==
  {[name |-> b, base |-> LocalMerge(b)] :
     b \in {x \in HeadsDict :
              /\ ~(x \in PubedDict /\ pub[x] = heads[x])
              /\ LocalMerge(x) # NoRev
              /\ RbCommits(LocalMerge(x), x) # {}}}

\* GetUploadableBranches (lines 384-407) reads and changes nothing.
GetUploadableBranches ==
  /\ exists
  /\ last' = Ran("GetUploadableBranches", "list",
                 IF Ready = {} THEN "none" ELSE "ready", "")
  /\ UNCHANGED <<commits, revision, bhead, sched, exists, rcfg, tracking, reflog, mref, heads,
                 pub, head, bcfg>>

\* ---------------------------------------------------- CleanPublishedCache
\* CleanPublishedCache (lines 368-382) called on its own.
CleanPublishedCacheCall ==
  /\ exists
  /\ pub' = CleanPublishedCache(heads, pub)
  /\ last' = Ran("CleanPublishedCache", "none",
                 IF pub' = pub THEN "kept" ELSE "deleted", "")
  /\ UNCHANGED <<commits, revision, bhead, sched, exists, rcfg, tracking, reflog, mref, heads,
                 head, bcfg>>

\* --------------------------------------------------------------- PruneHeads
\* The test of lines 681-683 without IsDirty.
PruneCandidateAnyTree(cb, rev, wt) ==
  /\ cb # ""
  /\ SymRevListIn(commits, HeadCommit, Resolve(rev)) = {}

\* Lines 681-683: the current branch cb is pruned too when HEAD...rev is empty
\* and the work tree (with the changes wt) is not dirty.
PruneCandidate(cb, rev, wt) ==
  /\ cb # ""
  /\ SymRevListIn(commits, HeadCommit, Resolve(rev)) = {}
  /\ ~IsDirty(wt, FALSE)

\* git branch -d kill..., run with the bare HEAD detached at rev (lines
\* 695-705): the branches git reports deleted are those merged into rev.
Deleted(kill, rev) == {b \in kill : heads[b] \in Anc(commits, Resolve(rev))}

\* A list that keeps an entry for every branch of kill.
KeptAll(kill, deleted, rev) ==
  {[name |-> b, base |-> IF LocalMerge(b) # NoRev THEN LocalMerge(b) ELSE rev] :
     b \in kill}

\* The list kept (lines 717-728): a ReviewableBranch, [name, base], for each
\* branch of kill that was not deleted.
Kept(kill, deleted, rev) ==
  {[name |-> b, base |-> IF LocalMerge(b) # NoRev THEN LocalMerge(b) ELSE rev] :
     b \in kill \ deleted}

\* PruneHeads (lines 670-728) in a work tree with the changes wt.
PruneHeadsOut(wt) ==
  LET cb == CurrentBranch
      rev == ToLocal(revision)
      others == {b \in HeadsDict : cb = "" \/ b # cb}
      cand == PruneCandidate(cb, rev, wt)
      kill == IF cand THEN others \cup {cb} ELSE others
      deleted == Deleted(kill, rev)
      hs == [b \in Branches |-> IF b \in deleted THEN 0 ELSE heads[b]]
      listed == IF cb # "" THEN kill \cup {cb} ELSE kill
  IN  [cb |-> cb,
       kill |-> kill,
       deleted |-> deleted,
       head |-> IF cand THEN Detached(HeadCommit) ELSE head,
       heads |-> hs,
       bcfg |-> [b \in Branches |->
                   IF b \in deleted THEN [remote |-> "", merge |-> NoRev]
                   ELSE bcfg[b]],
       pub |-> IF deleted # {} THEN CleanPublishedCache(hs, pub) ELSE pub,
       kept |-> Kept(listed, deleted, rev)]

\* bare_git.GetHead() with the fallback of lines 689-693: the branch the
\* bare HEAD bh names, or a name no branch has when symbolic-ref raises.
GetHead(bh) ==
  IF bh.kind = "branch" THEN bh.branch
  ELSE "please_never_use_this_as_a_branch_name"

\* The ways lines 695-706 end once kill is not empty: DetachHead(rev) raises
\* (always when rev names no commit), starting branch -d raises, or both run.
PruneExits(kill, rev) ==
  IF kill = {} THEN {"return"}
  ELSE IF Resolve(rev) = 0 THEN {"detach raised"}
  ELSE {"return", "detach raised", "branch raised"}

\* Lines 695-704 with SetHead(old) after the try block instead of in finally.
BareGitNoFinally(bh, rev, exit) ==
  LET during == IF exit = "detach raised" THEN bh ELSE Detached(Resolve(rev))
  IN  [old |-> GetHead(bh),
       during |-> during,
       after |-> IF exit = "return" THEN OnBranch(GetHead(bh)) ELSE during]

\* Lines 689-706, the bare HEAD bh through the deletion: old is read, HEAD is
\* detached at rev (update-ref --no-deref) unless that raises, branch -d runs
\* with it so, and finally SetHead(old) makes HEAD symbolic again.
BareGit(bh, rev, exit) ==
  LET during == IF exit = "detach raised" THEN bh ELSE Detached(Resolve(rev))
  IN  [old |-> GetHead(bh),
       during |-> during,
       after |-> OnBranch(GetHead(bh))]

\* PruneHeads (lines 670-728) when every git command does its work.
PruneHeads ==
  /\ exists
  /\ \E wt \in WtStates :
       LET o == PruneHeadsOut(wt)
           rev == ToLocal(revision)
       IN  /\ "return" \in PruneExits(o.kill, rev)
           /\ head' = o.head
           /\ bhead' = IF o.kill = {} THEN bhead
                       ELSE BareGit(bhead, rev, "return").after
           /\ heads' = o.heads
           /\ bcfg' = o.bcfg
           /\ pub' = o.pub
           /\ last' = Ran("PruneHeads", "list",
                          IF o.deleted = {} THEN "kept"
                          ELSE IF o.pub = pub THEN "deleted"
                          ELSE "deleted, published pruned",
                          o.cb)
  /\ UNCHANGED <<commits, revision, sched, exists, rcfg, tracking, reflog, mref>>

\* PruneHeads when DetachHead(rev) or branch -d raises (lines 695-706): the
\* GitError leaves the call after the finally clause, nothing was deleted, and
\* the work tree's HEAD stays detached when line 684 had detached it.
PruneHeadsRaises ==
  /\ exists
  /\ \E wt \in WtStates :
       LET o == PruneHeadsOut(wt)
           rev == ToLocal(revision)
       IN  \E exit \in PruneExits(o.kill, rev) \ {"return"} :
             /\ head' = o.head
             /\ bhead' = BareGit(bhead, rev, exit).after
             /\ last' = Ran("PruneHeads", "raise", exit, o.cb)
  /\ UNCHANGED <<commits, revision, sched, exists, rcfg, tracking, reflog, mref,
                 heads, bcfg, pub>>

Next ==
  \/ UserCommit
  \/ UserBranch
  \/ UserCheckout
  \/ UserDeleteBranch
  \/ Sync_NetworkHalf
  \/ Sync_LocalHalf
  \/ StartBranch
  \/ UploadForReview
  \/ GetUploadableBranches
  \/ CleanPublishedCacheCall
  \/ PruneHeads

Spec == Init /\ [][Next]_vars

\* ------------------------------------------------------------ two Projects
\* Two Projects, each with its own repository, work tree and configuration,
\* are synced at once: each runs its network half and then its local half one
\* git command at a time, and between two commands the other Project may run.
\* The variables hold the Project that runs; sched.peer holds the other one.

\* No half was started yet.
NotRunning ==
  [phase |-> "idle", half |-> "", step |-> 0, cut |-> FALSE,
   in |-> [none |-> TRUE], goal |-> [none |-> TRUE], at |-> [none |-> TRUE]]

\* The Project that runs, as a record.
Me ==
  [commits |-> commits, revision |-> revision, exists |-> exists,
   rcfg |-> rcfg, tracking |-> tracking, reflog |-> reflog, mref |-> mref,
   heads |-> heads, pub |-> pub, head |-> head, bcfg |-> bcfg, last |-> last,
   bhead |-> bhead, run |-> sched.run]

\* The Project as a call finds it.
Found == [Me EXCEPT !.run = NotRunning]

\* A Project set aside in the other's work tree: it takes the HEAD found there.
SuspendedInSharedWorkTree == [Me EXCEPT !.head = sched.peer.head]

\* The Project that runs, set aside; cut records that it was in a half.
Suspended ==
  [Me EXCEPT !.run.cut = (Me.run.cut \/ Me.run.phase = "running")]

\* The other Project runs next.
Yield ==
  LET p == sched.peer
  IN  /\ commits' = p.commits
      /\ revision' = p.revision
      /\ exists' = p.exists
      /\ rcfg' = p.rcfg
      /\ tracking' = p.tracking
      /\ reflog' = p.reflog
      /\ mref' = p.mref
      /\ heads' = p.heads
      /\ pub' = p.pub
      /\ head' = p.head
      /\ bcfg' = p.bcfg
      /\ last' = p.last
      /\ bhead' = p.bhead
      /\ sched' = [run |-> p.run, peer |-> Suspended]

\* The step of the running half is n.
AtStep(half, n) ==
  /\ sched.run.phase = "running"
  /\ sched.run.half = half
  /\ sched.run.step = n

GoTo(n) == sched' = [sched EXCEPT !.run.step = n]
Return == sched' = [sched EXCEPT !.run.phase = "returned"]

\* Sync_NetworkHalf is called (line 457) with the inputs in; goal is what the
\* call leaves and returns when nothing else runs before it returns.
Net_Call ==
  /\ sched.run.phase = "idle"
  /\ \E in \in NetInputs :
       /\ NetPossible(in)
       /\ sched' = [sched EXCEPT !.run =
                      [phase |-> "running", half |-> "net", step |-> 1,
                       cut |-> FALSE, in |-> in, goal |-> NetworkHalf(in),
                       at |-> Found]]
  /\ UNCHANGED <<commits, revision, bhead, exists, rcfg, tracking, reflog, mref,
                 heads, pub, head, bcfg, last>>

\* Lines 461-465: _InitGitDir (git init) and _InitRemote (remote.Save).
Net_InitGitDir ==
  /\ AtStep("net", 1)
  /\ exists' = TRUE
  /\ bhead' = InitGitDir
  /\ rcfg' = IF sched.run.in.hasUrl THEN [url |-> TRUE, review |-> ReviewUrl]
             ELSE rcfg
  /\ GoTo(2)
  /\ UNCHANGED <<commits, revision, tracking, reflog, mref, heads, pub, head,
                 bcfg, last>>

\* Lines 466-470: the fetches; the first that fails ends the call.
Net_RemoteFetch ==
  /\ AtStep("net", 2)
  /\ LET in == sched.run.in
     IN  IF in.failAt # 0
           THEN /\ last' = Ran("Sync_NetworkHalf", "false", "fetch failed", "")
                /\ Return
                /\ UNCHANGED <<commits, tracking, reflog>>
           ELSE /\ commits' = in.up.cm
                /\ tracking' = in.up.tip
                /\ reflog' = IF tracking # 0 /\ tracking # in.up.tip
                               THEN tracking ELSE reflog
                /\ GoTo(3)
                /\ last' = last
  /\ UNCHANGED <<revision, bhead, exists, rcfg, mref, heads, pub, head, bcfg>>

\* Lines 471-473: _InitMRef, and the call returns.
Net_InitMRef ==
  /\ AtStep("net", 3)
  /\ LET im == InitMRef(revision)
     IN  IF sched.run.in.mb /\ im.raised
           THEN /\ last' = Ran("Sync_NetworkHalf", "raise", "mref raised", "")
                /\ mref' = mref
           ELSE /\ last' = Ran("Sync_NetworkHalf", "true", "done", "")
                /\ mref' = IF sched.run.in.mb THEN im.mref ELSE mref
  /\ Return
  /\ UNCHANGED <<commits, revision, bhead, exists, rcfg, tracking, reflog, heads, pub,
                 head, bcfg>>

\* Sync_LocalHalf is called (line 503) after the Project's own network half
\* returned true.
Local_Call ==
  /\ sched.run.phase = "returned"
  /\ sched.run.half = "net"
  /\ LocalHalfInvoked
  /\ last.op = "Sync_NetworkHalf"
  /\ \E in \in LocalInputs :
       /\ Len(LocalHalf(in).commits) <= MaxCommits
       /\ sched' = [sched EXCEPT !.run =
                      [phase |-> "running", half |-> "local", step |-> 1,
                       cut |-> FALSE, in |-> in, goal |-> LocalHalf(in),
                       at |-> Found]]
  /\ UNCHANGED <<commits, revision, bhead, exists, rcfg, tracking, reflog, mref,
                 heads, pub, head, bcfg, last>>

\* Line 511: _InitWorkTree.
Local_InitWorkTree ==
  /\ AtStep("local", 1)
  /\ LET iw == InitWorkTree(sched.run.in.wt_ok)
     IN  /\ head' = iw.head
         /\ IF iw.raised
              THEN /\ last' = Ran("Sync_LocalHalf", "raise", "init", "")
                   /\ Return
              ELSE /\ last' = last
                   /\ GoTo(2)
  /\ UNCHANGED <<commits, revision, bhead, exists, rcfg, tracking, reflog, mref,
                 heads, pub, bcfg>>

\* Line 512: CleanPublishedCache.
Local_CleanPublishedCache ==
  /\ AtStep("local", 2)
  /\ pub' = CleanPublishedCache(heads, pub)
  /\ GoTo(3)
  /\ UNCHANGED <<commits, revision, bhead, exists, rcfg, tracking, reflog, mref,
                 heads, head, bcfg, last>>

\* Lines 514-628: the case is chosen, its command runs and the call returns.
Local_Sync ==
  /\ AtStep("local", 3)
  /\ LET o == LocalHalf(sched.run.in)
     IN  /\ commits' = o.commits
         /\ head' = o.head
         /\ heads' = o.heads
         /\ pub' = o.pub
         /\ bcfg' = o.bcfg
         /\ last' = Ran("Sync_LocalHalf", o.ret, o.path, o.arg)
  /\ Return
  /\ UNCHANGED <<revision, bhead, exists, rcfg, tracking, reflog, mref>>

\* A Project before its first sync, and one that was synced before, on whose
\* branch topic, started with StartBranch, the user has one commit.
FreshProject(rev) ==
  [commits |-> <<NewCommit(0, 1, "upstream")>>, revision |-> rev,
   exists |-> FALSE, rcfg |-> [url |-> FALSE, review |-> FALSE],
   tracking |-> 0, reflog |-> 0,
   mref |-> [kind |-> "none", target |-> NoRev, commit |-> 0],
   heads |-> [b \in Branches |-> 0], pub |-> [b \in Branches |-> 0],
   head |-> [kind |-> "none", branch |-> "", commit |-> 0],
   bcfg |-> [b \in Branches |-> [remote |-> "", merge |-> NoRev]],
   last |-> Idle, bhead |-> [kind |-> "none", branch |-> "", commit |-> 0],
   run |-> NotRunning]

StartedProject ==
  [commits |-> <<NewCommit(0, 1, "upstream"), NewCommit(1, 2, "user")>>,
   revision |-> RefRev(UpstreamRef),
   exists |-> TRUE, rcfg |-> [url |-> TRUE, review |-> ReviewUrl],
   tracking |-> 1, reflog |-> 0,
   mref |-> [kind |-> "symbolic", target |-> RefRev(TrackingRef), commit |-> 0],
   heads |-> [b \in Branches |-> 2], pub |-> [b \in Branches |-> 0],
   head |-> OnBranch("topic"),
   bcfg |-> [b \in Branches |->
               [remote |-> PrimaryRemote, merge |-> RefRev(UpstreamRef)]],
   last |-> Idle, bhead |-> [kind |-> "branch", branch |-> "master", commit |-> 0],
   run |-> NotRunning]

InitTwo ==
  \E a \in {StartedProject} :
  \E b \in {FreshProject(r) : r \in Revisions} :
    /\ commits = a.commits
    /\ revision = a.revision
    /\ exists = a.exists
    /\ rcfg = a.rcfg
    /\ tracking = a.tracking
    /\ reflog = a.reflog
    /\ mref = a.mref
    /\ heads = a.heads
    /\ pub = a.pub
    /\ head = a.head
    /\ bcfg = a.bcfg
    /\ last = a.last
    /\ bhead = a.bhead
    /\ sched = [run |-> a.run, peer |-> b]

NextTwo ==
  \/ Net_Call
  \/ Net_InitGitDir
  \/ Net_RemoteFetch
  \/ Net_InitMRef
  \/ Local_Call
  \/ Local_InitWorkTree
  \/ Local_CleanPublishedCache
  \/ Local_Sync
  \/ Yield

SpecTwo == InitTwo /\ [][NextTwo]_vars

\* ------------------------------------------------- a sync aborted and re-run
\* One Project whose sync can be aborted between two git commands and is then
\* run again with the same inputs before anything else happens.  sched holds
\* the aborted call: its inputs in, and goal, what the call leaves and returns
\* when it is not aborted; after the re-run it holds got, what the re-run
\* computed, until the sync command returns.

\* The manifest is read again and gives the Project another revision (the
\* constructor argument of line 166): the Project that followed the upstream
\* branch is now pinned to a commit id.  (The switch back is left out.)
ManifestSwitch ==
  /\ sched.phase = "solo"
  /\ ~IsId(revision)
  /\ \E r \in Revisions \ {revision} : revision' = r
  /\ last' = Idle
  /\ UNCHANGED <<commits, bhead, sched, exists, rcfg, tracking, reflog, mref,
                 heads, pub, head, bcfg>>

\* The operations of the Project run whole, while no aborted sync waits for
\* its re-run.
SoloUserCommit == sched.phase = "solo" /\ UserCommit
SoloStartBranch == sched.phase = "solo" /\ StartBranch
SoloSync_NetworkHalf == sched.phase = "solo" /\ Sync_NetworkHalf
SoloSync_LocalHalf == sched.phase = "solo" /\ Sync_LocalHalf

\* sched after the half was aborted: a call with the inputs in that would
\* have left and returned goal.
Aborted(half, in, goal) ==
  [phase |-> "aborted", half |-> half, in |-> in, goal |-> goal]

\* The places where Sync_NetworkHalf can stop between two commands: after
\* _InitGitDir and _InitRemote (1), after the fetches (2, before _InitMRef).
NetCuts == {1, 2}

\* Sync_NetworkHalf (lines 457-473) of a Project without extra remotes, in a
\* manifest with a branch, on its way to fetch everything, is aborted at the
\* cut k.
Net_Abort ==
  /\ sched.phase = "solo"
  /\ \E in \in NetInputs :
       /\ NetPossible(in)
       /\ in.failAt = 0 /\ in.nExtra = 0 /\ in.mb
       /\ \E k \in NetCuts :
            LET o == NetworkHalf(in)
            IN  /\ exists' = TRUE
                /\ bhead' = InitGitDir
                /\ rcfg' = o.rcfg
                /\ commits' = IF k = 2 THEN o.commits ELSE commits
                /\ tracking' = IF k = 2 THEN o.tracking ELSE tracking
                /\ reflog' = IF k = 2 THEN o.reflog ELSE reflog
                /\ sched' = Aborted("net", in, o)
                /\ last' = Ran("Sync_NetworkHalf", "abort", "", "")
  /\ UNCHANGED <<revision, mref, heads, pub, head, bcfg>>

\* The places where Sync_LocalHalf can stop between two commands: after
\* _InitWorkTree (1), after CleanPublishedCache (2) and, when the run gets
\* there, after branch.Save() and before the rebase, reset or merge (3).
LocalCuts(in) ==
  LET o == LocalHalf(in)
  IN  IF o.path = "init" THEN {}
      ELSE {1, 2} \cup (IF \E i \in 1..Len(o.did) : o.did[i] = "save"
                          THEN {3} ELSE {})

\* The inputs of a run whose git commands all do their work, in a work tree
\* with the changes wt: the inputs as but with every pick of the rebase applied.
Unhindered(as) ==
  LET in == [as EXCEPT !.wt_ok = TRUE, !.ok = TRUE, !.started = TRUE, !.picks = 0]
      o == LocalHalf(in)
  IN  IF o.path = "rebase"
        THEN [in EXCEPT !.picks = Len(RebaseTodo(commits, o.old, heads[o.arg]))]
        ELSE in

\* Sync_LocalHalf (lines 503-628), on its way to do all its work, is aborted
\* at the cut k.
Local_Abort ==
  /\ sched.phase = "solo"
  /\ LocalHalfInvoked
  /\ \E in \in {Unhindered(LocalInput(w, TRUE, TRUE, n, TRUE, 0)) :
                  w \in WtStates,
                  n \in IF reflog = 0 THEN {"error", "null", "empty"} ELSE {"error"}} :
       /\ Len(LocalHalf(in).commits) <= MaxCommits
       /\ \E k \in LocalCuts(in) :
            LET o == LocalHalf(in)
            IN  /\ head' = InitWorkTree(in.wt_ok).head
                /\ pub' = IF k >= 2 THEN CleanPublishedCache(heads, pub) ELSE pub
                /\ bcfg' = IF k = 3 THEN SaveBranch(o, o.arg).bcfg ELSE bcfg
                /\ sched' = Aborted("local", in, o)
                /\ last' = Ran("Sync_LocalHalf", "abort", "", o.arg)
  /\ UNCHANGED <<commits, revision, bhead, exists, rcfg, tracking, reflog, mref,
                 heads>>

\* The aborted half is called again and runs to its end: the server holds
\* what it held, the work tree has the changes it had, every command works.
ReRun ==
  /\ sched.phase = "aborted"
  /\ IF sched.half = "net"
       THEN LET o == NetworkHalf(sched.in)
            IN  /\ exists' = o.exists
                /\ rcfg' = o.rcfg
                /\ commits' = o.commits
                /\ tracking' = o.tracking
                /\ reflog' = o.reflog
                /\ mref' = o.mref
                /\ bhead' = InitGitDir
                /\ last' = Ran("Sync_NetworkHalf", o.ret, o.path, "")
                /\ sched' = [sched EXCEPT !.phase = "reran"]
                /\ UNCHANGED <<heads, pub, head, bcfg>>
       ELSE LET o == LocalHalf(Unhindered(sched.in))
            IN  /\ Len(o.commits) <= MaxCommits
                /\ commits' = o.commits
                /\ head' = o.head
                /\ heads' = o.heads
                /\ pub' = o.pub
                /\ bcfg' = o.bcfg
                /\ last' = Ran("Sync_LocalHalf", o.ret, o.path, o.arg)
                /\ sched' = [phase |-> "reran", half |-> "local",
                             in |-> [old |-> o.old], goal |-> sched.goal]
                /\ UNCHANGED <<exists, rcfg, tracking, reflog, mref, bhead>>
  /\ UNCHANGED revision

\* The sync command is over.
SyncReturns ==
  /\ sched.phase = "reran"
  /\ sched' = Solo
  /\ UNCHANGED <<commits, revision, bhead, exists, rcfg, tracking, reflog, mref,
                 heads, pub, head, bcfg, last>>

NextAbort ==
  \/ SoloUserCommit
  \/ SoloStartBranch
  \/ SoloSync_NetworkHalf
  \/ SoloSync_LocalHalf
  \/ ManifestSwitch
  \/ Net_Abort
  \/ Local_Abort
  \/ ReRun
  \/ SyncReturns

SpecAbort == Init /\ [][NextAbort]_vars

\* The program with the raising exits of PruneHeads, and without the calls
\* that only read or prune the published refs.
NextPrune ==
  \/ UserCommit
  \/ UserCheckout
  \/ Sync_NetworkHalf
  \/ Sync_LocalHalf
  \/ StartBranch
  \/ PruneHeads
  \/ PruneHeadsRaises

SpecPrune == Init /\ [][NextPrune]_vars

\* The Project is only synced and branched, in a repository whose reflog
\* expires.
NextExpired ==
  \/ UserCommit
  \/ UserExpireReflog
  \/ Sync_NetworkHalf
  \/ Sync_LocalHalf
  \/ StartBranch

SpecExpired == Init /\ [][NextExpired]_vars

\* The sequences made of the operations of Project that write refs, with the
\* user committing, checking out and fetching in between but never creating or
\* deleting a branch with git itself.
NextPublic ==
  \/ UserCommit
  \/ UserCheckout
  \/ Sync_NetworkHalf
  \/ Sync_LocalHalf
  \/ StartBranch
  \/ UploadForReview
  \/ PruneHeads

SpecPublic == Init /\ [][NextPublic]_vars

\* ================================================================ claims
\* The commands among rebase, reset and merge that a run invoked.
Commands(did) == {did[i] : i \in 1..Len(did)} \cap {"rebase", "reset", "merge"}

\* The commit of rev, the local name of the manifest's revision.
RevCommit == Resolve(ToLocal(revision))

\* ---------------------------------------------------------------- C1
\* C1: whenever Sync_LocalHalf, run in an existing work tree, returns false
\* (dirty refusal, or a failed checkout, rebase, hard reset or merge), HEAD and
\* every refs/heads/* ref have the values they had when the call started.
C1_FalseMovesNothing ==
  (LocalHalfInvoked /\ head.kind # "none") =>
    \A in \in LocalInputs :
      LET o == LocalHalf(in)
      IN  o.ret = "false" => (o.head = head /\ o.heads = heads)

\* A run that returned false because the rebase stopped: HEAD is left detached.
C1_RebaseStopped ==
  /\ last.op = "Sync_LocalHalf"
  /\ last.ret = "false"
  /\ last.path = "rebase"
  /\ head.kind = "detached"
  /\ heads[last.arg] # 0

\* ---------------------------------------------------------------- C2
\* C2: when Sync_LocalHalf runs on a tracked branch whose published commit is
\* not reachable from rev and there is upstream gain, it returns true without
\* invoking rebase, reset or merge and without moving HEAD or the branch ref;
\* and no run removes from a branch a published commit of that branch that is
\* not reachable from rev.
C2_PublishedKept ==
  LocalHalfInvoked =>
    \A in \in LocalInputs :
      LET o == LocalHalf(in)
          b == CurrentBranch
      IN  /\ (/\ b # ""
              /\ LocalMerge(b) # NoRev
              /\ pub[b] # 0
              /\ pub[b] \notin Anc(commits, RevCommit)
              /\ RevListIn(commits, heads[b], RevCommit) # {})
             => (/\ o.ret = "true"
                 /\ Commands(o.did) = {}
                 /\ o.head = head
                 /\ o.heads = heads)
          /\ \A x \in Branches :
               (/\ heads[x] # 0
                /\ pub[x] \in Anc(commits, heads[x])
                /\ pub[x] \notin Anc(commits, RevCommit))
               => (/\ o.heads[x] # 0
                   /\ pub[x] \in Anc(o.commits, o.heads[x]))

\* A run has just returned at the published check, with upstream gain.
C2_Punted ==
  /\ last.op = "Sync_LocalHalf"
  /\ last.ret = "true"
  /\ last.path = "published"
  /\ pub[last.arg] \notin Anc(commits, RevCommit)
  /\ RevListIn(commits, heads[last.arg], RevCommit) # {}

\* ---------------------------------------------------------------- C3
\* The upstream as it was before the last fetch moved it: old_merge.
PrevUpstream(in) ==
  Resolve(OldMerge(ToLocal(revision), ToLocal(revision), in.nolog))

\* C3: whenever Sync_LocalHalf returns true, every branch is still there and
\* every commit it had that was not reachable from the previous upstream, or a
\* commit with the same patch (its rebased successor), is reachable from the
\* branch's tip after the call.
C3_UniqueCommitsKept ==
  LocalHalfInvoked =>
    \A in \in LocalInputs :
      LET o == LocalHalf(in)
      IN  o.ret = "true" =>
            \A b \in Branches :
              heads[b] # 0 =>
                /\ o.heads[b] # 0
                /\ \A c \in RevListIn(commits, PrevUpstream(in), heads[b]) :
                     \E d \in Anc(o.commits, o.heads[b]) :
                       o.commits[d].patch = commits[c].patch

\* A rebase has just copied a commit of the user onto the new upstream.
C3_Rebased ==
  /\ last.op = "Sync_LocalHalf"
  /\ last.ret = "true"
  /\ last.path = "rebase"
  /\ \E d \in Anc(commits, heads[last.arg]) :
       /\ commits[d].patch # d
       /\ commits[d].author = "user"
       /\ commits[d].parent = RevCommit

\* ---------------------------------------------------------------- C4
\* What the run with inputs in computes on the tracked branch b.
GainOf(b) == RevListIn(commits, heads[b], RevCommit)
OldMergeOf(b, in) == OldMerge(LocalMerge(b), ToLocal(revision), in.nolog)
LostOf(b, in) == UpstreamLost(ToLocal(revision), OldMergeOf(b, in))
MineOf(b, in) == RevListIn(commits, Resolve(OldMergeOf(b, in)), heads[b])
Tracked(b) == b # "" /\ LocalMerge(b) # NoRev
Uncommitted(in) == in.wt \cap {"staged", "unstaged"} # {}
\* The published commit of b has commits that rev does not contain.
PublishedAhead(b) == pub[b] # 0 /\ pub[b] \notin Anc(commits, RevCommit)

\* What C4 promises of the run with inputs in.
Refused(in) ==
  LET o == LocalHalf(in)
  IN  /\ o.ret = "false"
      /\ Commands(o.did) = {}
      /\ o.head = head
      /\ o.heads = heads
      /\ o.bcfg = bcfg

\* C4 as stated: on a tracked branch, if upstream_gain or upstream_lost is
\* non-empty and the work tree has staged or unstaged changes, Sync_LocalHalf
\* returns false without rebase, reset or merge and leaves HEAD, the branch
\* ref and the tracking configuration unchanged.
C4_DirtyRefused_AsStated ==
  LocalHalfInvoked =>
    \A in \in LocalInputs :
      LET b == CurrentBranch
      IN  (/\ Tracked(b)
           /\ GainOf(b) # {} \/ LostOf(b, in) # {}
           /\ Uncommitted(in))
          => Refused(in)

\* C4, amended: the same, when the published check does not end the run (the
\* branch is not published, or rev contains its published commit).
C4_DirtyRefused ==
  LocalHalfInvoked =>
    \A in \in LocalInputs :
      LET b == CurrentBranch
      IN  (/\ Tracked(b)
           /\ ~PublishedAhead(b)
           /\ GainOf(b) # {} \/ LostOf(b, in) # {}
           /\ Uncommitted(in))
          => Refused(in)

\* A run has just refused a dirty work tree, with upstream gain.
C4_RefusedDirty ==
  /\ last.op = "Sync_LocalHalf"
  /\ last.ret = "false"
  /\ last.path = "dirty"
  /\ GainOf(last.arg) # {}

\* ---------------------------------------------------------------- C5
IsCommand(x) == x \in {"rebase", "reset", "merge"}

\* C5: a run that gets past the dirty check on a tracked branch invokes exactly
\* one command: rebase iff my_changes is non-empty, otherwise reset iff
\* upstream_lost is non-empty, otherwise merge.
C5_OneCommandChosen ==
  LocalHalfInvoked =>
    \A in \in LocalInputs :
      LET b == CurrentBranch
          o == LocalHalf(in)
      IN  (/\ Tracked(b)
           /\ ~PublishedAhead(b)
           /\ GainOf(b) # {} \/ LostOf(b, in) # {}
           /\ ~Uncommitted(in))
          => SelectSeq(o.did, IsCommand)
               = << IF MineOf(b, in) # {} THEN "rebase"
                    ELSE IF LostOf(b, in) # {} THEN "reset"
                    ELSE "merge" >>

\* A run has just reset the branch: upstream was rewritten, the user had nothing.
C5_ResetChosen ==
  /\ last.op = "Sync_LocalHalf"
  /\ last.ret = "true"
  /\ last.path = "reset"
  /\ heads[last.arg] = RevCommit
  /\ reflog \notin Anc(commits, RevCommit)

\* ---------------------------------------------------------------- C6
\* C6: when Sync_LocalHalf has returned true and runs again with nothing
\* changed in between, the second run finds upstream_gain and upstream_lost
\* empty and does no rebase, reset, merge or configuration write.
C6_SecondRunNoOp ==
  (last.op = "Sync_LocalHalf" /\ last.ret = "true") =>
    \A in \in LocalInputs :
      LET b == CurrentBranch
          o == LocalHalf(in)
      IN  /\ Commands(o.did) = {}
          /\ o.bcfg = bcfg
          /\ o.head = head
          /\ o.heads = heads
          /\ (Tracked(b) /\ ~PublishedAhead(b))
               => (GainOf(b) = {} /\ LostOf(b, in) = {})

\* A run has returned true on a tracked branch that is level with an upstream
\* whose previous value is not part of it: upstream was rewritten.
C6_SyncedAfterRewrite ==
  /\ last.op = "Sync_LocalHalf"
  /\ last.ret = "true"
  /\ last.path \in {"reset", "rebase"}
  /\ GainOf(last.arg) = {}
  /\ reflog # 0
  /\ reflog \notin Anc(commits, RevCommit)

\* ---------------------------------------------------------------- C7
\* C7: if a fetch exits non-zero, Sync_NetworkHalf returns false, makes no
\* further fetch, runs neither the import repair nor the update of the
\* manifest ref, and the local half is not invoked after the false result.
C7_FetchFailureStops ==
  /\ \A in \in NetInputs :
       (NetPossible(in) /\ in.failAt # 0) =>
         LET o == NetworkHalf(in)
         IN  /\ o.ret = "false"
             /\ Len(o.did) = in.failAt
             /\ \A i \in 1..Len(o.did) : o.did[i] \in {"fetch extra", "fetch"}
             /\ o.mref = mref
             /\ o.tracking = tracking
  /\ (last.op = "Sync_NetworkHalf" /\ last.ret = "false") => ~LocalHalfInvoked

\* A fetch has just failed in a repository that had fetched before.
C7_FetchFailed ==
  /\ last.op = "Sync_NetworkHalf"
  /\ last.ret = "false"
  /\ last.path = "fetch failed"
  /\ tracking # 0
  /\ head.kind # "none"

\* ---------------------------------------------------------------- C8
\* C8: Sync_NetworkHalf, whatever it returns, leaves the work tree's HEAD, every
\* refs/heads/* ref, every refs/published/* ref and the branches' tracking
\* configuration unchanged.
C8_NetworkFrame ==
  [][last'.op = "Sync_NetworkHalf" => UNCHANGED <<head, heads, pub, bcfg>>]_vars

\* A network half has just moved the remote-tracking ref beside a published
\* branch that is checked out.
C8_FetchedBesideBranch ==
  /\ last.op = "Sync_NetworkHalf"
  /\ last.ret = "true"
  /\ reflog # 0
  /\ head.kind = "branch"
  /\ pub[head.branch] # 0
  /\ bcfg[head.branch].remote # ""

\* ---------------------------------------------------------------- C9
\* C9: with a manifest branch set and every fetch succeeding, Sync_NetworkHalf
\* returns true and leaves refs/remotes/m/<manifest-branch> detached at
\* revision^0 when the revision is an object id, and otherwise symbolic to
\* ToLocal(revision).
C9_MRefSet ==
  \A in \in NetInputs :
    (NetPossible(in) /\ in.failAt = 0 /\ in.mb) =>
      LET o == NetworkHalf(in)
      IN  /\ o.ret = "true"
          /\ o.mref = IF IsId(revision)
                        THEN [kind |-> "detached", target |-> NoRev,
                              commit |-> revision.id]
                        ELSE [kind |-> "symbolic", target |-> ToLocal(revision),
                              commit |-> 0]

\* A network half with an object id for revision has raised at the manifest ref.
C9_MRefRaised ==
  /\ last.op = "Sync_NetworkHalf"
  /\ last.ret = "raise"
  /\ last.path = "mref raised"
  /\ IsId(revision)
  /\ mref.kind = "none"

\* --------------------------------------------------------------- C10
\* UploadForReview(branch) gets as far as calling UploadBundle.
UploadCalled(branch) ==
  LET b == IF branch = "" THEN CurrentBranch ELSE branch
  IN  /\ b # ""
      /\ LocalMerge(b) # NoRev
      /\ rcfg.review
      /\ tracking # 0

\* C10: UploadForReview sets refs/published/B to the commit of refs/heads/B if
\* and only if UploadBundle succeeded; when the upload fails with a login
\* failure or an HTTP error, UploadError is raised and refs/published/B keeps
\* its value.
C10_PublishedIffUploaded ==
  exists =>
    \A branch \in Branches \cup {""}, result \in UploadResults :
      LET o == UploadOut(branch, result)
      IN  IF UploadCalled(branch) /\ result = "ok"
            THEN /\ o.ret = "none"
                 /\ o.pub = [pub EXCEPT ![o.arg] = heads[o.arg]]
            ELSE /\ o.ret = "raise"
                 /\ o.pub = pub
                 /\ UploadCalled(branch) => o.path = "UploadError"

\* An upload has just failed on a branch that was published before and has
\* moved since: the published ref is still the earlier one.
C10_UploadFailed ==
  /\ last.op = "UploadForReview"
  /\ last.ret = "raise"
  /\ last.path = "UploadError"
  /\ pub[last.arg] # 0
  /\ pub[last.arg] # heads[last.arg]

\* --------------------------------------------------------------- C11
\* C11: GetUploadableBranches returns a ReviewableBranch for B if and only if
\* refs/heads/B exists, B has a non-empty LocalMerge, refs/published/B is
\* absent or differs from refs/heads/B, and revlist(^LocalMerge, refs/heads/B)
\* is non-empty; the base returned with B is B's LocalMerge.
C11_UploadableIff ==
  exists =>
    \A b \in Branches :
      /\ (\E rb \in Ready : rb.name = b)
           <=> (/\ heads[b] # 0
                /\ LocalMerge(b) # NoRev
                /\ pub[b] = 0 \/ pub[b] # heads[b]
                /\ Anc(commits, heads[b]) \ Anc(commits, Resolve(LocalMerge(b))) # {})
      /\ \A rb \in Ready : rb.name = b => rb.base = LocalMerge(b)

\* The list has just been asked for and holds a branch that was published and
\* has moved since.
C11_ReadyAgain ==
  /\ last.op = "GetUploadableBranches"
  /\ last.path = "ready"
  /\ \E rb \in Ready : pub[rb.name] # 0 /\ pub[rb.name] # heads[rb.name]

\* C13: CleanPublishedCache deletes exactly the refs/published/X whose
\* refs/heads/X does not exist and leaves every other published ref, every
\* head, HEAD, the tracking ref, the manifest ref and the configuration as
\* they were; DeleteRef removes a ref only while it still holds the object id
\* that was observed, so a deletion against a stale id removes nothing.
C13_CleanExact ==
  [][last'.op = "CleanPublishedCache" =>
       /\ \A b \in Branches :
            pub'[b] = IF pub[b] # 0 /\ heads[b] = 0 THEN 0 ELSE pub[b]
       /\ \A b \in Branches : \A old \in 0..MaxCommits :
            DeleteRef(pub, b, old)[b] = IF old = pub[b] THEN 0 ELSE pub[b]
       /\ UNCHANGED <<commits, revision, exists, rcfg, tracking, reflog, mref,
                      heads, head, bcfg>>]_vars

\* CleanPublishedCache has just removed a published ref whose branch is gone.
C13_StaleRemoved ==
  /\ last.op = "CleanPublishedCache"
  /\ last.path = "deleted"
  /\ \E b \in Branches : heads[b] = 0 /\ pub[b] = 0

\* ---------------------------------------------------------------- C14
\* The work tree holds no staged and no unstaged change and HEAD...rev is
\* empty.
PruneClean(wt) ==
  /\ SymRevListIn(commits, HeadCommit, RevCommit) = {}
  /\ wt \cap {"staged", "unstaged"} = {}

\* C14: PruneHeads passes the current branch to branch -d, or moves the work
\* tree HEAD off it, only when HEAD...rev is empty and the work tree has no
\* staged or unstaged change; in every other case the current branch is not
\* passed to branch -d, its ref is unchanged, HEAD still points at it and the
\* returned list has an entry for it.
C14_CurrentBranchGuard ==
  exists =>
    \A wt \in WtStates :
      LET o == PruneHeadsOut(wt)
          cb == CurrentBranch
      IN  cb # "" =>
            /\ (cb \in o.kill \/ o.head # head) => PruneClean(wt)
            /\ ~PruneClean(wt) =>
                 /\ cb \notin o.kill
                 /\ o.heads[cb] = heads[cb]
                 /\ o.head = head
                 /\ \E rb \in o.kept : rb.name = cb

\* PruneHeads has detached HEAD from the current branch and deleted it.
C14_CurrentPruned ==
  /\ last.op = "PruneHeads"
  /\ last.arg # ""
  /\ head.kind = "detached"
  /\ heads[last.arg] = 0

\* ---------------------------------------------------------------- C15
\* C15: the list PruneHeads returns has exactly one entry for each branch that
\* existed before the call and was not reported deleted, and none for a
\* deleted branch; when at least one branch was deleted, no
\* refs/published/<deleted> remains.
C15_KeptList ==
  exists =>
    \A wt \in WtStates :
      LET o == PruneHeadsOut(wt)
      IN  /\ o.deleted \subseteq HeadsDict
          /\ {rb.name : rb \in o.kept} = HeadsDict \ o.deleted
          /\ \A b \in HeadsDict \ o.deleted :
               Cardinality({rb \in o.kept : rb.name = b}) = 1
          /\ o.deleted # {} => \A b \in o.deleted : o.pub[b] = 0

\* PruneHeads has deleted a branch that had a published ref, and the published
\* ref went with it.
C15_PublishedPruned ==
  /\ last.op = "PruneHeads"
  /\ last.path = "deleted, published pruned"
  /\ \A b \in Branches : heads[b] = 0 /\ pub[b] = 0

\* ---------------------------------------------------------------- C12
\* C12: in every state reached by StartBranch, UploadForReview, Sync_LocalHalf
\* and PruneHeads in any order, each refs/published/X either has refs/heads/X
\* existing with the published commit reachable from its tip, or has no
\* refs/heads/X.
C12_PublishedReachable ==
  \A x \in Branches :
    pub[x] # 0 => \/ heads[x] # 0 /\ pub[x] \in Anc(commits, heads[x])
                  \/ heads[x] = 0

\* Sync_LocalHalf has rewritten a branch whose published commit is merged
\* upstream: the published commit is below a tip it was not the tip of.
C12_PublishedBelowNewTip ==
  /\ last.op = "Sync_LocalHalf"
  /\ last.path \in {"rebase", "reset", "merge"}
  /\ \E x \in Branches :
       /\ pub[x] # 0
       /\ heads[x] # 0
       /\ pub[x] # heads[x]
       /\ head = OnBranch(x)

\* ---------------------------------------------------------------- C16
\* StartBranch(last.arg) has just succeeded.
Started == last.op = "StartBranch" /\ last.ret = "none"

\* C16: right after StartBranch(name) succeeds, HEAD is the symbolic ref
\* refs/heads/<name>, that ref is at the commit of ToLocal(revision), the
\* branch's remote is the primary remote and its merge is the revision; and
\* Sync_LocalHalf run next, with nothing fetched in between, takes the
\* tracked-branch case, returns true, runs none of rebase, reset and merge and
\* leaves HEAD, the heads and the branch configuration alone.
C16_StartedThenNoOp ==
  Started =>
    /\ head = OnBranch(last.arg)
    /\ heads[last.arg] = RevCommit
    /\ bcfg[last.arg] = [remote |-> PrimaryRemote, merge |-> revision]
    /\ \A in \in LocalInputs :
         LET o == LocalHalf(in)
         IN  /\ o.path \notin {"init", "detached", "untracked"}
             /\ o.ret = "true"
             /\ Commands(o.did) = {}
             /\ o.head = head
             /\ o.heads = heads
             /\ o.bcfg = bcfg

\* StartBranch has succeeded on an upstream that was rewritten before: the
\* previous value of the tracking ref is not contained in the present one.
C16_StartedAfterRewrite ==
  /\ Started
  /\ reflog # 0
  /\ reflog \notin Anc(commits, tracking)
  /\ head = OnBranch(last.arg)
  /\ heads[last.arg] = RevCommit

\* ---------------------------------------------------------------- C19
\* The run with inputs in is on a tracked branch whose published commit, if
\* any, is contained in rev, and finds upstream_gain and upstream_lost empty.
Quiet(in) ==
  /\ Tracked(CurrentBranch)
  /\ ~PublishedAhead(CurrentBranch)
  /\ GainOf(CurrentBranch) = {}
  /\ LostOf(CurrentBranch, in) = {}

\* C19: on a tracked branch with no published commit missing from rev, when
\* upstream_gain and upstream_lost are both empty Sync_LocalHalf returns true
\* at the nothing-to-do test, whatever the work tree holds: no rebase, reset
\* or merge runs, the configuration is not saved, and HEAD, the heads and the
\* branch configuration are unchanged, also with staged or unstaged changes.
C19_NothingToDoIgnoresDirty ==
  LocalHalfInvoked =>
    \A in \in LocalInputs :
      Quiet(in) =>
        LET o == LocalHalf(in)
        IN  /\ o.ret = "true"
            /\ o.path = "nothing"
            /\ Commands(o.did) = {}
            /\ \A i \in 1..Len(o.did) : o.did[i] # "save"
            /\ o.head = head
            /\ o.heads = heads
            /\ o.bcfg = bcfg
            /\ \A w \in WtStates : LocalHalf([in EXCEPT !.wt = w]) = o

\* A run has just returned at the nothing-to-do test, and run on this state
\* with a dirty work tree it returns there again.
C19_QuietAndDirty ==
  /\ last.op = "Sync_LocalHalf"
  /\ last.ret = "true"
  /\ last.path = "nothing"
  /\ \E in \in LocalInputs : Uncommitted(in) /\ Quiet(in)

\* ---------------------------------------------------------------- C20
\* C20: when the current branch is published, its published commit is not
\* contained in rev and upstream_gain is empty, Sync_LocalHalf does not return
\* at the published check but goes on to old_merge, upstream_lost and the rest
\* of the decisions; with upstream_lost non-empty and staged or unstaged
\* changes in the work tree it returns false.
C20_PublishedFallsThrough ==
  LocalHalfInvoked =>
    \A in \in LocalInputs :
      LET b == CurrentBranch
          o == LocalHalf(in)
      IN  (/\ Tracked(b)
           /\ PublishedAhead(b)
           /\ GainOf(b) = {})
          => /\ o.path # "published"
             /\ (LostOf(b, in) # {} /\ Uncommitted(in)) => o.ret = "false"

\* A run has just returned true at the published check with no upstream gain,
\* on a branch where upstream_lost is non-empty and the work tree may be dirty.
C20_PublishedReturnedNoGain ==
  /\ last.op = "Sync_LocalHalf"
  /\ last.ret = "true"
  /\ last.path = "published"
  /\ PublishedAhead(last.arg)
  /\ GainOf(last.arg) = {}
  /\ \E in \in LocalInputs : LostOf(last.arg, in) # {} /\ Uncommitted(in)

\* ---------------------------------------------------------------- C17
\* C17: after Sync_LocalHalf returns true, a copy-file destination has the
\* content of its source and no write permission, on every path that returns
\* true and whatever the destination was before: absent, of another content,
\* or of the same content but writable.
C17_CopyFilesInstalled ==
  LocalHalfInvoked =>
    \A in \in LocalInputs : \A d \in DestStates : \A io \in BOOLEAN :
      LocalHalf(in).ret = "true" => CopyFilesOut(in, d, io) = "same, read-only"

\* A run has just returned true after calling _CopyFiles, which leaves a
\* destination of the source's content writable.
C17_CopiedOverIdentical ==
  /\ last.op = "Sync_LocalHalf"
  /\ last.ret = "true"
  /\ last.path \in {"detached", "untracked", "rebase", "reset", "merge"}
  /\ Copy("same, writable", TRUE) = "same, writable"

\* ---------------------------------------------------------------- C18
\* The Project p has returned from a half with what the half returns and
\* leaves when it runs from call to return with nothing in between: the same
\* return value, refs, HEAD and configuration.
AsAlone(p) ==
  p.run.phase = "returned" =>
    LET g == p.run.goal
        at == p.run.at
    IN  /\ p.last.ret = g.ret
        /\ p.last.path = g.path
        /\ p.commits = g.commits
        /\ p.revision = at.revision
        /\ IF p.run.half = "net"
             THEN /\ p.exists = g.exists
                  /\ p.rcfg = g.rcfg
                  /\ p.tracking = g.tracking
                  /\ p.reflog = g.reflog
                  /\ p.mref = g.mref
                  /\ p.head = at.head
                  /\ p.heads = at.heads
                  /\ p.pub = at.pub
                  /\ p.bcfg = at.bcfg
             ELSE /\ p.head = g.head
                  /\ p.heads = g.heads
                  /\ p.pub = g.pub
                  /\ p.bcfg = g.bcfg
                  /\ p.exists = at.exists
                  /\ p.rcfg = at.rcfg
                  /\ p.tracking = at.tracking
                  /\ p.reflog = at.reflog
                  /\ p.mref = at.mref

NoPredecessor(b, in) ==
  RevParsePrev(LocalMerge(b), in.nolog) \in {ErrRev, IdRev(NullOid), EmptyRev}

C22_OnlyUserCommitsReplayed ==
  (exists /\ last.op = "Sync_NetworkHalf" /\ last.ret = "true") =>
    \A in \in LocalInputs :
      LET b == CurrentBranch
          o == LocalHalf(in)
      IN  (Tracked(b) /\ o.path = "rebase")
          => \A c \in MineOf(b, in) : commits[c].author = "user"

\* After two fetches in a row, the second on top of a rewritten upstream, a
\* local half is about to replay a commit that the upstream made and dropped.
C22_DroppedUpstreamReplayed ==
  /\ exists
  /\ last.op = "Sync_NetworkHalf"
  /\ last.ret = "true"
  /\ \E in \in LocalInputs :
       /\ Tracked(CurrentBranch)
       /\ LocalHalf(in).path = "rebase"
       /\ LostOf(CurrentBranch, in) = {}
       /\ \E c \in MineOf(CurrentBranch, in) :
            /\ commits[c].author = "upstream"
            /\ c \notin Anc(commits, RevCommit)

\* ---------------------------------------------------------------- C23
\* C23: when the current branch has no tracking configuration, a
\* Sync_LocalHalf that returns true leaves every refs/heads/<branch> at the
\* commit it was at, leaves HEAD detached at rev and writes no tracking
\* configuration; no rebase, reset or merge runs.
C23_UntrackedLeftInPlace ==
  LocalHalfInvoked =>
    \A in \in LocalInputs :
      LET b == CurrentBranch
          o == LocalHalf(in)
      IN  (b # "" /\ LocalMerge(b) = NoRev /\ o.ret = "true")
          => /\ o.path = "untracked"
             /\ o.heads = heads
             /\ o.head = Detached(RevCommit)
             /\ o.bcfg = bcfg
             /\ Commands(o.did) = {}
             /\ \A i \in 1..Len(o.did) : o.did[i] \notin {"save"}

\* A run has just left a branch without tracking configuration, whose tip is
\* not rev, for a detached HEAD at rev.
C23_LeftUntracked ==
  /\ last.op = "Sync_LocalHalf"
  /\ last.ret = "true"
  /\ last.path = "untracked"
  /\ heads[last.arg] # 0
  /\ heads[last.arg] # RevCommit
  /\ LocalMerge(last.arg) = NoRev
  /\ head = Detached(RevCommit)

\* C24: when PruneHeads has branches to delete, the bare repository's HEAD is
\* detached at rev while branch -d runs, and on every way out of the call
\* (return, DetachHead raising, branch -d raising) it is set back to the
\* symbolic target it had, so the bare HEAD after PruneHeads is the one before.
C24_BareHeadRestored ==
  [][last'.op = "PruneHeads" =>
       /\ bhead' = bhead
       /\ \A wt \in WtStates :
            LET o == PruneHeadsOut(wt)
                rev == ToLocal(revision)
            IN  o.kill # {} =>
                  \A exit \in PruneExits(o.kill, rev) :
                    LET g == BareGit(bhead, rev, exit)
                    IN  /\ exit # "detach raised" =>
                             g.during = Detached(RevCommit)
                        /\ g.after = bhead
                        /\ g.after.kind = "branch"]_vars

\* PruneHeads had branches to delete, branch -d raised, and the bare HEAD is
\* the symbolic ref git init wrote.
C24_RestoredAfterRaise ==
  /\ last.op = "PruneHeads"
  /\ last.ret = "raise"
  /\ last.path = "branch raised"
  /\ bhead = OnBranch("master")

\* ---------------------------------------------------------------- C25
\* What the variables hold is what the call goal describes.
SameAsUninterrupted(goal, half) ==
  IF half = "net"
    THEN /\ last.ret = goal.ret
         /\ exists = goal.exists
         /\ rcfg = goal.rcfg
         /\ commits = goal.commits
         /\ tracking = goal.tracking
         /\ reflog = goal.reflog
         /\ mref = goal.mref
    ELSE /\ last.ret = goal.ret
         /\ last.path = goal.path
         /\ sched.in.old = goal.old
         /\ head = goal.head
         /\ heads = goal.heads
         /\ pub = goal.pub
         /\ bcfg = goal.bcfg

\* C25: a half that was aborted between two of its git commands and is then
\* run again to its end, with nothing else changed in between, takes the same
\* decision with the same old_merge and leaves the same HEAD, refs and
\* configuration as the same call does when it is not aborted.
C25_ReRunAsUninterrupted ==
  sched.phase = "reran" => SameAsUninterrupted(sched.goal, sched.half)

\* After the manifest switched the revision, a local half aborted after
\* branch.Save() and run again found nothing to do, where the uninterrupted
\* call resets the branch to rev: HEAD is not where that call leaves it.
C25_ReRunFoundNothing ==
  /\ sched.phase = "reran"
  /\ sched.half = "local"
  /\ sched.goal.path = "reset"
  /\ last.path = "nothing"
  /\ HeadCommit # HeadCommitOf(sched.goal.head, sched.goal.heads)

\* ---------------------------------------------------------------- C26
\* The names of the branches GetUploadableBranches returns.
ReadyNames == {rb.name : rb \in Ready}

\* C26: a successful UploadForReview(B) leaves refs/published/B equal to
\* refs/heads/B, and B is then not returned by GetUploadableBranches; from
\* there, a step that does not move refs/heads/B leaves B not returned, and a
\* step that moves refs/heads/B to a commit with commits outside B's
\* LocalMerge makes GetUploadableBranches return B again.
C26_PublishedUntilMoved ==
  [][\A b \in Branches :
       /\ (last'.op = "UploadForReview" /\ last'.path = "posted" /\ last'.arg = b)
            => /\ pub'[b] = heads'[b]
               /\ heads'[b] # 0
               /\ b \notin ReadyNames'
       /\ (pub[b] = heads[b] /\ heads[b] # 0)
            => /\ heads'[b] = heads[b] => b \notin ReadyNames'
               /\ (/\ heads'[b] # heads[b]
                   /\ heads'[b] # 0
                   /\ LocalMerge(b)' # NoRev
                   /\ RbCommits(LocalMerge(b), b)' # {})
                    => b \in ReadyNames']_vars

\* The list has just been asked for and holds a branch whose published commit
\* lies below the commit the branch has moved to.
C26_ReturnedAfterMove ==
  /\ last.op = "GetUploadableBranches"
  /\ \E b \in ReadyNames :
       /\ pub[b] # 0
       /\ pub[b] # heads[b]
       /\ pub[b] \in Anc(commits, heads[b])

\* ---------------------------------------------------------------- C27
\* C27: when the checkout -b of StartBranch(name) exits non-zero, as it does
\* when refs/heads/<name> already exists, StartBranch raises GitError and
\* nothing is persisted: the stored remote and merge of <name>, HEAD and every
\* ref are what they were before the call.
C27_FailedStartLeavesNoTrace ==
  [][last'.op = "StartBranch" =>
       /\ heads[last'.arg] # 0 => last'.ret = "raise"
       /\ StartBranchOut(last'.arg, FALSE).ret = "raise"
       /\ StartBranchOut(last'.arg, FALSE).path = "GitError"
       /\ last'.ret = "raise" =>
            /\ bcfg' = bcfg
            /\ head' = head
            /\ heads' = heads
            /\ pub' = pub
            /\ tracking' = tracking
            /\ mref' = mref
            /\ bhead' = bhead]_vars

\* StartBranch has just raised for a branch that exists and tracks nothing:
\* the remote and merge it had set on the Branch object were not saved.
C27_ExistingStaysUntracked ==
  /\ last.op = "StartBranch"
  /\ last.ret = "raise"
  /\ heads[last.arg] # 0
  /\ bcfg[last.arg] = [remote |-> "", merge |-> NoRev]

====
